---- MODULE Spec2Model ----
(***************************************************************************)
(* The pitch-deck builder: the server's in-memory deck store and its five   *)
(* tools (src/index.ts), and the widget that presents a deck snapshot       *)
(* (src/resources/pitch-deck.tsx).                                          *)
(*                                                                          *)
(* JavaScript values are encoded as follows.                                *)
(*   - a string is a TLA+ string; "" is the (falsy) empty string;           *)
(*   - an optional value (a field or argument that may be undefined, or     *)
(*     null) is a sequence of length at most one: << >> is undefined and    *)
(*     <<v>> is the value v;                                                *)
(*   - an array is a sequence, indexed from 1 (JavaScript index i is        *)
(*     TLA+ index i + 1);                                                   *)
(*   - a Map is a function whose DOMAIN is the set of its keys;             *)
(*   - the 8-character prefix of a random UUID is a token, a number drawn   *)
(*     nondeterministically: two draws may give the same token.             *)
(***************************************************************************)
EXTENDS Integers, Sequences, FiniteSets, TLC

\* The server: the deck store, the current-deck pointer, the answer to the
\* latest tool call, and the number of calls that returned.
VARIABLES decks, currentDeckId, response, calls

\* The widget: the snapshot it presents (undefined while no widget is
\* rendered), its two pieces of React state, the change_theme calls it has
\* issued that the server has not executed yet, the latest input it
\* handled, with the slide index that input found, and the swatch clicked
\* last (undefined while none was).
VARIABLES props, currentSlide, activeTheme, inFlight, event, clicked

serverVars == <<decks, currentDeckId, response, calls>>

widgetVars == <<props, currentSlide, activeTheme, inFlight, event, clicked>>

vars == <<decks, currentDeckId, response, calls,
          props, currentSlide, activeTheme, inFlight, event, clicked>>

\* ------------------------------------------------------------ JS values

Undefined == << >>

Some(v) == <<v>>

IsDefined(o) == o # << >>

Get(o) == o[1]

\* `x || dflt` on an optional string: undefined and "" are both falsy.
OrDefault(o, dflt) == IF IsDefined(o) /\ Get(o) # "" THEN Get(o) ELSE dflt

\* Splice called as splice(start): everything from start on is deleted.
SpliceToEnd(arr, start, deleteCount, items) ==
  LET len == Len(arr)
      from == IF start < 0
                THEN (IF len + start > 0 THEN len + start ELSE 0)
                ELSE (IF start < len THEN start ELSE len)
  IN SubSeq(arr, 1, from) \o items

\* Array.prototype.splice(start, deleteCount, ...items) on a copy of arr.
Splice(arr, start, deleteCount, items) ==
  LET len == Len(arr)
      from == IF start < 0
                THEN (IF len + start > 0 THEN len + start ELSE 0)
                ELSE (IF start < len THEN start ELSE len)
      cnt == IF deleteCount < 0 THEN 0
             ELSE IF deleteCount > len - from THEN len - from ELSE deleteCount
  IN SubSeq(arr, 1, from) \o items \o SubSeq(arr, from + cnt + 1, len)

\* Array.prototype.push(item) on a copy of arr.
Push(arr, item) == Append(arr, item)

\* Map.prototype.set(key, value) on a copy of map.
MapSet(map, key, value) ==
  [k \in DOMAIN map \cup {key} |-> IF k = key THEN value ELSE map[k]]

\* ------------------------------------------------------------ constants

NumTemplateSlides == 9

VALID_THEMES == <<"midnight", "clean", "sunset", "forest", "electric">>

ThemeSet == {VALID_THEMES[i] : i \in 1..Len(VALID_THEMES)}

NoDeckMessage == "No deck found. Generate a pitch deck first."

UpdateIndexMessage(n) ==
  "Invalid slide index. Deck has " \o ToString(n) \o " slides (0-"
    \o ToString(n - 1) \o ")."

RemoveIndexMessage == "Invalid slide index."

\* The message zod's enum check reports for a theme outside VALID_THEMES.
InvalidThemeMessage == "Invalid enum value."

\* ------------------------------------------------------------ slides

\* makeSlide(type, title, opts): opts is a function from some of the optional
\* field names to their values; the fields it leaves out stay undefined.
Opt(opts, f) == IF f \in DOMAIN opts THEN Some(opts[f]) ELSE Undefined

makeSlide(id, type, title, opts) ==
  [id |-> id, type |-> type, title |-> title,
   subtitle |-> Opt(opts, "subtitle"), content |-> Opt(opts, "content"),
   bullets |-> Opt(opts, "bullets"), metrics |-> Opt(opts, "metrics"),
   icon |-> Opt(opts, "icon")]

Metric(label, value, description) ==
  [label |-> label, value |-> value, description |-> description]

\* deckProps(deck): the snapshot handed to the widget.
deckProps(deck) ==
  [companyName |-> deck.companyName, tagline |-> deck.tagline,
   theme |-> deck.theme, slides |-> deck.slides]

\* getCurrentDeck returning the first deck of the Map, whatever the pointer.
getCurrentDeckFirstStored ==
  IF IsDefined(currentDeckId) /\ Get(currentDeckId) \in DOMAIN decks
    THEN Some(decks[CHOOSE k \in DOMAIN decks : \A j \in DOMAIN decks : k <= j])
    ELSE Undefined

\* getCurrentDeck(): the current deck, or null (Undefined).
getCurrentDeck ==
  IF IsDefined(currentDeckId) /\ Get(currentDeckId) \in DOMAIN decks
    THEN Some(decks[Get(currentDeckId)])
    ELSE Undefined

\* deck.slides.length of the current deck (0 when there is none).
NumSlides ==
  IF IsDefined(getCurrentDeck) THEN Len(Get(getCurrentDeck).slides) ELSE 0

\* ------------------------------------------------------------ tool results

\* Thrown with the pointer reset (currentDeckId = null) before the throw.
ThrownClearsCurrent(tool, message) ==
  [decks |-> decks, currentDeckId |-> Undefined,
   response |-> [tool |-> tool, error |-> Some(message), props |-> Undefined]]

\* What a tool call leaves behind: the store after it and the response sent.
\* A handler that throws leaves the store as it was and returns no snapshot.
Thrown(tool, message) ==
  [decks |-> decks, currentDeckId |-> currentDeckId,
   response |-> [tool |-> tool, error |-> Some(message), props |-> Undefined]]

\* Returned with the snapshot taken before the mutation.
ReturnedStaleSnapshot(tool, deck) ==
  [decks |-> [decks EXCEPT ![deck.id] = deck], currentDeckId |-> currentDeckId,
   response |-> [tool |-> tool, error |-> Undefined,
                 props |-> Some(deckProps(decks[deck.id]))]]

\* The handler mutated `deck` in place (it is the object the Map holds under
\* deck.id) and returned widget({props: deckProps(deck), ...}).
Returned(tool, deck) ==
  [decks |-> [decks EXCEPT ![deck.id] = deck], currentDeckId |-> currentDeckId,
   response |-> [tool |-> tool, error |-> Undefined,
                 props |-> Some(deckProps(deck))]]

\* ------------------------------------------------------------ tool 1

\* The nine template slides; ids[i] is the token makeSlide draws for slide i.
TemplateSlides(company_name, description, ind, stg, ask, trac, ids) ==
  << makeSlide(ids[1], "title", company_name,
       [f \in {"subtitle", "icon"} |->
          IF f = "subtitle" THEN description ELSE "rocket"]),
     makeSlide(ids[2], "problem", "The Problem",
       [content |-> "The " \o ind \o " industry faces critical challenges that existing solutions fail to address.",
        bullets |-> <<"Current solutions are fragmented and outdated",
                      "Users waste significant time on manual processes",
                      "No unified platform addresses the full workflow">>,
        icon |-> "fire"]),
     makeSlide(ids[3], "solution", "Our Solution",
       [content |-> company_name \o " " \o description \o ". We provide a seamless, integrated platform that transforms how people work.",
        bullets |-> <<"AI-powered automation eliminates manual work",
                      "Unified platform replaces 5+ point solutions",
                      "Real-time insights drive better decisions">>,
        icon |-> "bulb"]),
     makeSlide(ids[4], "market", "Market Opportunity",
       [content |-> "The " \o ind \o " market is massive and growing rapidly.",
        metrics |-> <<Metric("TAM", "$50B+", "Total addressable market"),
                      Metric("SAM", "$8B", "Serviceable addressable market"),
                      Metric("SOM", "$500M", "Serviceable obtainable market")>>,
        icon |-> "chart"]),
     makeSlide(ids[5], "product", "The Product",
       [content |-> "A brief walkthrough of " \o company_name \o "'s core product experience.",
        bullets |-> <<"Intuitive onboarding - get started in under 2 minutes",
                      "AI-powered core workflow that saves 10+ hours/week",
                      "Dashboard with real-time analytics and insights",
                      "Integrations with the tools teams already use">>,
        icon |-> "phone"]),
     makeSlide(ids[6], "business_model", "Business Model",
       [content |-> "SaaS subscription model with strong unit economics.",
        metrics |-> <<Metric("ACV", "$12K", "Average contract value"),
                      Metric("Gross Margin", "85%", "Software margins"),
                      Metric("LTV:CAC", "5:1", "Efficient growth")>>,
        icon |-> "money"]),
     makeSlide(ids[7], "traction", "Traction",
       [content |-> trac,
        metrics |-> <<Metric("Users", "10K+", "Active monthly users"),
                      Metric("Revenue", "$500K ARR", "Annual recurring revenue"),
                      Metric("Growth", "3x YoY", "Year-over-year growth")>>,
        icon |-> "trend"]),
     makeSlide(ids[8], "team", "The Team",
       [content |-> "Experienced founders with deep domain expertise.",
        bullets |-> <<"CEO - 10+ years in the industry, ex-FAANG",
                      "CTO - ML/AI expert, PhD Stanford",
                      "VP Sales - Built $50M pipeline at previous startup">>,
        icon |-> "people"]),
     makeSlide(ids[9], "ask", "The Ask",
       [content |-> "Raising " \o ask \o " " \o stg \o " round to accelerate growth.",
        metrics |-> <<Metric("Raising", ask, stg \o " round"),
                      Metric("Use: Product", "40%", "Engineering & product"),
                      Metric("Use: Growth", "35%", "Sales & marketing"),
                      Metric("Use: Ops", "25%", "Team & operations")>>,
        icon |-> "target"]) >>

\* GeneratePitchDeck with `currentDeckId ??= deckId` for `currentDeckId = deckId`.
GeneratePitchDeckKeepsCurrent(args, deckId, ids) ==
  LET ind == OrDefault(args.industry, "technology")
      stg == OrDefault(args.stage, "Seed")
      ask == OrDefault(args.ask_amount, "$2M")
      trac == OrDefault(args.traction, "Growing rapidly")
      slides == TemplateSlides(args.company_name, args.description,
                               ind, stg, ask, trac, ids)
      deck == [id |-> deckId, companyName |-> args.company_name,
               tagline |-> args.description, theme |-> VALID_THEMES[1],
               slides |-> slides]
  IN [decks |-> MapSet(decks, deckId, deck),
      currentDeckId |-> IF IsDefined(currentDeckId) THEN currentDeckId
                        ELSE Some(deckId),
      response |-> [tool |-> "generate_pitch_deck", error |-> Undefined,
                    props |-> Some(deckProps(deck))]]

\* GeneratePitchDeck without decks.set(deckId, deck): the pointer is set to a
\* deck the store does not hold.
GeneratePitchDeckSkipsStore(args, deckId, ids) ==
  [GeneratePitchDeckKeepsCurrent(args, deckId, ids)
     EXCEPT !.decks = decks, !.currentDeckId = Some(deckId)]

\* The generate_pitch_deck handler. args holds the six schema fields (the four
\* optional ones as optional values); deckId and ids are the tokens drawn.
GeneratePitchDeck(args, deckId, ids) ==
  LET ind == OrDefault(args.industry, "technology")
      stg == OrDefault(args.stage, "Seed")
      ask == OrDefault(args.ask_amount, "$2M")
      trac == OrDefault(args.traction, "Growing rapidly")
      slides == TemplateSlides(args.company_name, args.description,
                               ind, stg, ask, trac, ids)
      deck == [id |-> deckId, companyName |-> args.company_name,
               tagline |-> args.description, theme |-> VALID_THEMES[1],
               slides |-> slides]
  IN [decks |-> MapSet(decks, deckId, deck), currentDeckId |-> Some(deckId),
      response |-> [tool |-> "generate_pitch_deck", error |-> Undefined,
                    props |-> Some(deckProps(deck))]]

\* ------------------------------------------------------------ tool 2

\* `if (v) slide.f = v` on an optional string: "" is falsy and assigns nothing.
IsTruthyString(o) == IsDefined(o) /\ Get(o) # ""

\* UpdatedSlide with `if (bullets && bullets.length)` for `if (bullets)`.
UpdatedSlideSkipsEmptyBullets(slide, title, content, bullets) ==
  [slide EXCEPT !.title = IF IsTruthyString(title) THEN Get(title) ELSE @,
                !.content = IF IsTruthyString(content) THEN content ELSE @,
                !.bullets = IF IsDefined(bullets) /\ Get(bullets) # << >>
                              THEN bullets ELSE @]

\* UpdatedSlide with content and bullets assigned without their `if`.
UpdatedSlideAssignsAll(slide, title, content, bullets) ==
  [slide EXCEPT !.title = IF IsTruthyString(title) THEN Get(title) ELSE @,
                !.content = content,
                !.bullets = bullets]

\* The three conditional assignments of the update_slide handler.
UpdatedSlide(slide, title, content, bullets) ==
  [slide EXCEPT !.title = IF IsTruthyString(title) THEN Get(title) ELSE @,
                !.content = IF IsTruthyString(content) THEN content ELSE @,
                !.bullets = IF IsDefined(bullets) THEN bullets ELSE @]

\* The update_slide handler.
UpdateSlide(slide_index, title, content, bullets) ==
  LET cur == getCurrentDeck IN
  IF ~IsDefined(cur) THEN Thrown("update_slide", NoDeckMessage)
  ELSE LET deck == Get(cur) IN
    IF slide_index < 0 \/ slide_index >= Len(deck.slides)
      THEN Thrown("update_slide", UpdateIndexMessage(Len(deck.slides)))
      ELSE Returned("update_slide",
             [deck EXCEPT !.slides[slide_index + 1] =
                UpdatedSlide(@, title, content, bullets)])

\* ------------------------------------------------------------ tool 3

\* The slide add_slide builds: makeSlide(slide_type, title, {content}), then
\* bullets when given.
NewSlide(id, title, content, slide_type, bullets) ==
  [makeSlide(id, slide_type, title, [content |-> content])
     EXCEPT !.bullets = IF IsDefined(bullets) THEN bullets ELSE @]

\* InsertSlide with splice(position, 1, newSlide).
InsertSlideReplaces(slides, position, newSlide) ==
  IF IsDefined(position) /\ Get(position) >= 0 /\ Get(position) <= Len(slides)
    THEN Splice(slides, Get(position), 1, <<newSlide>>)
    ELSE Push(slides, newSlide)

\* InsertSlide without the range check on position.
InsertSlideAnyPosition(slides, position, newSlide) ==
  IF IsDefined(position)
    THEN Splice(slides, Get(position), 0, <<newSlide>>)
    ELSE Push(slides, newSlide)

\* Where add_slide puts the new slide.
InsertSlide(slides, position, newSlide) ==
  IF IsDefined(position) /\ Get(position) >= 0 /\ Get(position) <= Len(slides)
    THEN Splice(slides, Get(position), 0, <<newSlide>>)
    ELSE Push(slides, newSlide)

\* The add_slide handler. id is the token makeSlide draws.
AddSlide(title, content, slide_type, position, bullets, id) ==
  LET cur == getCurrentDeck IN
  IF ~IsDefined(cur) THEN Thrown("add_slide", NoDeckMessage)
  ELSE LET deck == Get(cur) IN
    Returned("add_slide",
      [deck EXCEPT !.slides =
         InsertSlide(@, position,
                     NewSlide(id, title, content, slide_type, bullets))])

\* ------------------------------------------------------------ tool 4

\* RemoveSlide with the index checked before the deck.
RemoveSlideIndexFirst(slide_index) ==
  LET cur == getCurrentDeck IN
  IF slide_index < 0 \/ slide_index >= NumSlides
    THEN Thrown("remove_slide", RemoveIndexMessage)
  ELSE IF ~IsDefined(cur) THEN Thrown("remove_slide", NoDeckMessage)
  ELSE Returned("remove_slide",
         [Get(cur) EXCEPT !.slides = Splice(@, slide_index, 1, << >>)])

\* RemoveSlide with `slide_index > deck.slides.length`.
RemoveSlideAllowsLength(slide_index) ==
  LET cur == getCurrentDeck IN
  IF ~IsDefined(cur) THEN Thrown("remove_slide", NoDeckMessage)
  ELSE LET deck == Get(cur) IN
    IF slide_index < 0 \/ slide_index > Len(deck.slides)
      THEN Thrown("remove_slide", RemoveIndexMessage)
      ELSE Returned("remove_slide",
             [deck EXCEPT !.slides = Splice(@, slide_index, 1, << >>)])

\* RemoveSlide refusing to remove a deck's last slide.
RemoveSlideKeepsOne(slide_index) ==
  LET cur == getCurrentDeck IN
  IF ~IsDefined(cur) THEN Thrown("remove_slide", NoDeckMessage)
  ELSE LET deck == Get(cur) IN
    IF slide_index < 0 \/ slide_index >= Len(deck.slides) \/ Len(deck.slides) <= 1
      THEN Thrown("remove_slide", RemoveIndexMessage)
      ELSE Returned("remove_slide",
             [deck EXCEPT !.slides = Splice(@, slide_index, 1, << >>)])

\* The remove_slide handler.
RemoveSlide(slide_index) ==
  LET cur == getCurrentDeck IN
  IF ~IsDefined(cur) THEN Thrown("remove_slide", NoDeckMessage)
  ELSE LET deck == Get(cur) IN
    IF slide_index < 0 \/ slide_index >= Len(deck.slides)
      THEN Thrown("remove_slide", RemoveIndexMessage)
      ELSE Returned("remove_slide",
             [deck EXCEPT !.slides = Splice(@, slide_index, 1, << >>)])

\* ------------------------------------------------------------ tool 5

\* ChangeTheme with a schema of z.string() for z.enum(VALID_THEMES).
ChangeThemeUnchecked(theme) ==
  LET cur == getCurrentDeck IN
  IF ~IsDefined(cur) THEN Thrown("change_theme", NoDeckMessage)
  ELSE Returned("change_theme", [Get(cur) EXCEPT !.theme = theme])

\* ChangeTheme without the assignment deck.theme = theme.
ChangeThemeKeepsTheme(theme) ==
  IF theme \notin ThemeSet THEN Thrown("change_theme", InvalidThemeMessage)
  ELSE LET cur == getCurrentDeck IN
    IF ~IsDefined(cur) THEN Thrown("change_theme", NoDeckMessage)
    ELSE Returned("change_theme", Get(cur))

\* The change_theme tool: the schema's z.enum(VALID_THEMES) rejects any other
\* value before the handler runs; the handler overwrites deck.theme.
ChangeTheme(theme) ==
  IF theme \notin ThemeSet THEN Thrown("change_theme", InvalidThemeMessage)
  ELSE LET cur == getCurrentDeck IN
    IF ~IsDefined(cur) THEN Thrown("change_theme", NoDeckMessage)
    ELSE Returned("change_theme", [Get(cur) EXCEPT !.theme = theme])

\* ------------------------------------------------------------ inputs

\* Bounds of the model: the tokens a deck id is drawn from, and the work a
\* behaviour does (WithinBounds, below).
NumTokens == 2

MaxWork == 27

Tokens == 1..NumTokens

\* The nine tokens generate_pitch_deck draws for its slides, sampled: nine
\* different tokens, or the last draw repeating the first.
DistinctDraws == [i \in 1..NumTemplateSlides |-> i]

SlideDraws ==
  { DistinctDraws,
    [i \in 1..NumTemplateSlides |-> IF i = NumTemplateSlides THEN 1 ELSE i] }

\* The token add_slide draws, sampled: one a template slide may hold, or one
\* no template slide holds.
AddDraws == {1, NumTemplateSlides + 1}

OptionalStrings == {Undefined, Some("x")}

\* Arguments the schemas accept, sampled.
GenerateInputs ==
  [company_name : {"Acme"}, description : {"sells widgets"},
   industry : OptionalStrings, stage : OptionalStrings,
   ask_amount : OptionalStrings, traction : OptionalStrings]

TitleInputs == {Undefined, Some(""), Some("New title")}

ContentInputs == {Undefined, Some(""), Some("New content")}

BulletsInputs == {Undefined, Some(<< >>), Some(<<"b1", "b2">>)}

\* Slide indices and positions around a deck of n slides: below, inside,
\* at and above the range.
IndexInputs(n) == -2..(n + 1)

PositionInputs(n) == {Undefined} \cup {Some(i) : i \in IndexInputs(n)}

ThemeInputs == ThemeSet \cup {"neon", ""}

\* Titles, contents, types and drawn ids for add_slide, sampled: the schema's
\* default type with a new token, and an archetype's type, an empty title and
\* an empty content with a token a template slide may hold.
AddInputs ==
  { [title |-> "Appendix", content |-> "extra info", slide_type |-> "custom",
     id |-> NumTemplateSlides + 1],
    [title |-> "", content |-> "", slide_type |-> "team", id |-> 1] }

\* The calls the behaviours make: a part of the inputs above.
GenerateCalls ==
  { a \in GenerateInputs :
      /\ a.industry = Undefined /\ a.stage = Undefined
      /\ a.ask_amount = Undefined /\ a.traction = Undefined }

\* On a deck of n slides: an index below the range, the second slide (the
\* first when there is no third) and an index above the range.
IndexCalls(n) == {-1, IF n > 2 THEN 1 ELSE 0, n}

UpdateCalls(n) ==
  { <<i, Some("New title"), Undefined, Undefined>> : i \in IndexCalls(n) }
    \cup { <<n - 1, Some(""), Some("New content"), Some(<<"b1", "b2">>)>> }

AddCalls(n) ==
  { <<Undefined, Undefined, NumTemplateSlides + 1>>,
    <<Some(1), Undefined, 1>>,
    <<Some(n + 1), Some(<<"b1", "b2">>), NumTemplateSlides + 1>> }

ThemeCalls == {"forest", "neon"}

\* ------------------------------------------------------------ state machine

NoCalls == [generates |-> 0, edits |-> 0, removes |-> 0]

\* The state after the module is loaded: an empty Map, no current deck, and
\* no call answered yet.
Init ==
  /\ decks = << >>
  /\ currentDeckId = Undefined
  /\ response = [tool |-> "none", error |-> Undefined, props |-> Undefined]
  /\ calls = NoCalls
  /\ props = Undefined
  /\ currentSlide = 0
  /\ activeTheme = "midnight"
  /\ inFlight = << >>
  /\ event = [input |-> "none", prev |-> 0]
  /\ clicked = Undefined

\* The bound on a behaviour: its calls that returned (a call that throws
\* changes nothing and is not counted) weigh at most MaxWork, a removal
\* weighing 1 and a generation or an edit (update_slide, add_slide,
\* change_theme) 9. A deck can so be emptied and then added to, and two decks
\* can be generated and edited.
WithinBounds(c) == 9 * (c.generates + c.edits) + c.removes <= MaxWork

\* A call's effect on the store and the response; `counted` names the count
\* a call that returned adds to.
Apply(result, counted) ==
  /\ decks' = result.decks
  /\ currentDeckId' = result.currentDeckId
  /\ response' = result.response
  /\ calls' = IF IsDefined(result.response.error) THEN calls
              ELSE [calls EXCEPT ![counted] = @ + 1]
  /\ WithinBounds(calls')

generate_pitch_deck ==
  /\ \E args \in GenerateCalls, deckId \in Tokens :
       Apply(GeneratePitchDeck(args, deckId, DistinctDraws), "generates")
  /\ UNCHANGED widgetVars

update_slide ==
  /\ \E c \in UpdateCalls(NumSlides) :
       Apply(UpdateSlide(c[1], c[2], c[3], c[4]), "edits")
  /\ UNCHANGED widgetVars

add_slide ==
  /\ \E c \in AddCalls(NumSlides) :
       Apply(AddSlide("Appendix", "extra info", "custom", c[1], c[2], c[3]),
             "edits")
  /\ UNCHANGED widgetVars

remove_slide ==
  /\ \E slide_index \in IndexCalls(NumSlides) :
       Apply(RemoveSlide(slide_index), "removes")
  /\ UNCHANGED widgetVars

change_theme ==
  /\ \E theme \in ThemeCalls :
       Apply(ChangeTheme(theme), "edits")
  /\ UNCHANGED widgetVars

Next ==
  \/ generate_pitch_deck
  \/ update_slide
  \/ add_slide
  \/ remove_slide
  \/ change_theme

Spec == Init /\ [][Next]_vars

\* ------------------------------------------------------------ the widget

\* Object.keys(THEMES): the themes the widget defines, one swatch each.
THEMES == {"midnight", "clean", "sunset", "forest", "electric"}

\* Names under which the lookup THEMES[name] finds a value although THEMES
\* does not define them: THEMES is an object literal, and inherits the
\* properties of Object.prototype. Sampled.
InheritedKeys == {"toString"}

\* THEMES[name] is truthy.
HasTheme(name) == name \in THEMES \cup InheritedKeys

\* useState(themeName || "midnight"): the theme state of the first render.
InitialTheme(themeName) == IF themeName # "" THEN themeName ELSE "midnight"

\* Reconcile with the effect's setCurrentSlide(0) left out.
ReconcileKeepsIndex(themeName, slide, active) ==
  [currentSlide |-> slide,
   activeTheme |-> IF themeName # "" /\ HasTheme(themeName) THEN themeName
                   ELSE active]

\* Reconcile with the effect's setActiveTheme(themeName) left out.
ReconcileIgnoresTheme(themeName, slide, active) ==
  [currentSlide |-> 0, activeTheme |-> active]

\* The effect on [slides, themeName], run on state (slide, active):
\* setCurrentSlide(0), and setActiveTheme(themeName) if
\* themeName && THEMES[themeName].
Reconcile(themeName, slide, active) ==
  [currentSlide |-> 0,
   activeTheme |-> IF themeName # "" /\ HasTheme(themeName) THEN themeName
                   ELSE active]

\* The theme whose palette the widget shows:
\* THEMES[activeTheme] || THEMES.midnight.
DisplayedTheme == IF HasTheme(activeTheme) THEN activeTheme ELSE "midnight"

\* slides.length of the snapshot presented (0 while none is).
total == IF IsDefined(props) THEN Len(Get(props).slides) ELSE 0

Min(a, b) == IF a < b THEN a ELSE b

Max(a, b) == IF a > b THEN a ELSE b

\* goToSlide(index) when the index shown is current: the index shown after.
goToSlide(index, current) ==
  IF index >= 0 /\ index < total THEN index ELSE current

\* ArrowKeyNext going round to the first slide after the last.
ArrowKeyNextWraps(prev) == IF prev + 1 >= total THEN 0 ELSE prev + 1

\* ArrowRight / ArrowDown: setCurrentSlide(prev => Math.min(prev + 1, total - 1)).
ArrowKeyNext(prev) == Min(prev + 1, total - 1)

\* ArrowLeft / ArrowUp: setCurrentSlide(prev => Math.max(prev - 1, 0)).
ArrowKeyPrev(prev) == Max(prev - 1, 0)

\* What a key does to the index; a key that is no arrow does nothing.
KeyDown(key, prev) ==
  IF key \in {"ArrowRight", "ArrowDown"} THEN ArrowKeyNext(prev)
  ELSE IF key \in {"ArrowLeft", "ArrowUp"} THEN ArrowKeyPrev(prev)
  ELSE prev

\* A click on the previous-slide button, which is disabled (and takes no
\* click) when currentSlide === 0.
PrevArrowClick(current) ==
  IF current = 0 THEN current ELSE goToSlide(current - 1, current)

\* A click on the next-slide button, disabled when currentSlide === total - 1.
NextArrowClick(current) ==
  IF current = total - 1 THEN current ELSE goToSlide(current + 1, current)

\* Bounds of the widget's behaviours: the slides of the longest snapshot it
\* is handed, and the change_theme calls it may have in flight.
MaxShown == 3

MaxInFlight == 2

\* The props the widget's schema accepts (theme is any string), sampled: the
\* first n template slides, n from 0 to MaxShown, with a theme THEMES
\* defines, the empty string, a name THEMES does not know, or a name it
\* inherits.
SnapshotThemes == {"midnight", "forest", "", "neon", "toString"}

Snapshots ==
  { [companyName |-> "Acme", tagline |-> "sells widgets", theme |-> t,
     slides |-> SubSeq(TemplateSlides("Acme", "sells widgets", "technology",
                                      "Seed", "$2M", "Growing rapidly",
                                      DistinctDraws), 1, n)] :
      t \in SnapshotThemes, n \in 0..MaxShown }

Keys == {"ArrowRight", "ArrowDown", "ArrowLeft", "ArrowUp", "Enter"}

\* The swatches the behaviours click.
ThemeClicks == {"clean", "forest"}

\* The widget's state after an input, and the input recorded.
Handled(input, slide, active) ==
  /\ currentSlide' = slide
  /\ activeTheme' = active
  /\ event' = [input |-> input, prev |-> currentSlide]

\* The first render with the props p: the two useState initialisers, then
\* the effect.
Render(p) ==
  /\ props = Undefined
  /\ LET r == Reconcile(p.theme, 0, InitialTheme(p.theme)) IN
       /\ props' = Some(p)
       /\ Handled("render", r.currentSlide, r.activeTheme)
  /\ UNCHANGED <<inFlight, clicked>>

render ==
  /\ \E p \in Snapshots : Render(p)
  /\ UNCHANGED serverVars

\* New props arrive (a new slides array): the widget renders again and the
\* effect runs, before any later input is handled.
ReceiveProps(p) ==
  /\ IsDefined(props)
  /\ LET r == Reconcile(p.theme, currentSlide, activeTheme) IN
       /\ props' = Some(p)
       /\ Handled("props", r.currentSlide, r.activeTheme)
  /\ UNCHANGED <<inFlight, clicked>>

receive_props ==
  /\ \E p \in Snapshots : ReceiveProps(p)
  /\ UNCHANGED serverVars

keydown ==
  /\ IsDefined(props)
  /\ \E key \in Keys : Handled(key, KeyDown(key, currentSlide), activeTheme)
  /\ UNCHANGED <<serverVars, props, inFlight, clicked>>

click_prev ==
  /\ IsDefined(props)
  /\ Handled("prev", PrevArrowClick(currentSlide), activeTheme)
  /\ UNCHANGED <<serverVars, props, inFlight, clicked>>

click_next ==
  /\ IsDefined(props)
  /\ Handled("next", NextArrowClick(currentSlide), activeTheme)
  /\ UNCHANGED <<serverVars, props, inFlight, clicked>>

click_dot ==
  /\ IsDefined(props)
  /\ \E i \in 0..(total - 1) :
       Handled("dot", goToSlide(i, currentSlide), activeTheme)
  /\ UNCHANGED <<serverVars, props, inFlight, clicked>>

\* HandleThemeChange with setActiveTheme(name) moved behind the await.
HandleThemeChangeAwaitsFirst(name) ==
  [activeTheme |-> activeTheme, inFlight |-> Append(inFlight, name)]

\* handleThemeChange that sets the local theme and issues no call.
HandleThemeChangeDropsCall(name) ==
  [activeTheme |-> name, inFlight |-> inFlight]

\* handleThemeChange(name) up to its await: setActiveTheme(name), and the
\* change_theme call is issued.
HandleThemeChange(name) ==
  [activeTheme |-> name, inFlight |-> Append(inFlight, name)]

\* A click on a swatch.
handleThemeChange ==
  /\ IsDefined(props)
  /\ Len(inFlight) < MaxInFlight
  /\ \E name \in ThemeClicks :
       LET r == HandleThemeChange(name) IN
         /\ Handled("theme", currentSlide, r.activeTheme)
         /\ inFlight' = r.inFlight
         /\ clicked' = Some(name)
  /\ UNCHANGED <<serverVars, props>>

\* The calls in flight without the i-th.
Without(calls_, i) ==
  SubSeq(calls_, 1, i - 1) \o SubSeq(calls_, i + 1, Len(calls_))

\* The server executes one of the calls in flight, in any order; the widget
\* drops the answer, and the catch block drops a failure.
callTool ==
  /\ \E i \in 1..Len(inFlight) :
       /\ Apply(ChangeTheme(inFlight[i]), "edits")
       /\ inFlight' = Without(inFlight, i)
  /\ UNCHANGED <<props, currentSlide, activeTheme, event, clicked>>

WidgetNext ==
  \/ render
  \/ receive_props
  \/ keydown
  \/ click_prev
  \/ click_next
  \/ click_dot
  \/ handleThemeChange
  \/ callTool

WidgetSpec == Init /\ [][WidgetNext]_vars

\* ------------------------------------------------------------ the system

\* The server and a widget together. The chat generates decks; the host
\* shows the widget the snapshot the chat's call returned, at once, later or
\* never (a widget may go on showing an earlier deck); the widget's own
\* change_theme calls reach the server in any order, or fail on the way.

\* The generate_pitch_deck calls of the chat: the industry given or omitted.
ChatGenerateCalls ==
  { a \in GenerateInputs :
      a.stage = Undefined /\ a.ask_amount = Undefined /\ a.traction = Undefined }

chat_generates ==
  /\ \E args \in ChatGenerateCalls, deckId \in Tokens :
       Apply(GeneratePitchDeck(args, deckId, DistinctDraws), "generates")
  /\ UNCHANGED widgetVars

\* The host hands the widget the snapshot returned to the chat. The answer to
\* a call the widget made itself goes to handleThemeChange, which drops it.
show_response ==
  /\ response.tool # "change_theme"
  /\ IsDefined(response.props)
  /\ response.props # props
  /\ Render(Get(response.props)) \/ ReceiveProps(Get(response.props))
  /\ UNCHANGED serverVars

\* A change_theme call fails before the server executes it: callTool
\* rejects, and the catch block of handleThemeChange drops the failure.
callTool_rejected ==
  /\ \E i \in 1..Len(inFlight) : inFlight' = Without(inFlight, i)
  /\ UNCHANGED <<serverVars, props, currentSlide, activeTheme, event, clicked>>

SystemNext ==
  \/ chat_generates
  \/ show_response
  \/ click_next
  \/ handleThemeChange
  \/ callTool
  \/ callTool_rejected

SystemSpec == Init /\ [][SystemNext]_vars

\* ------------------------------------------------------------ one deck, calls in order

\* The model generates a deck while the store has none.
generate_first_deck ==
  /\ DOMAIN decks = {}
  /\ chat_generates

\* The server executes the oldest change_theme call of the widget.
callTool_inOrder ==
  /\ inFlight # << >>
  /\ Apply(ChangeTheme(Head(inFlight)), "edits")
  /\ inFlight' = Tail(inFlight)
  /\ UNCHANGED <<props, currentSlide, activeTheme, event, clicked>>

\* One widget and one deck; the widget's calls are the only changes of the
\* theme, and the server executes them in the order of the clicks.
InOrderNext ==
  \/ generate_first_deck
  \/ show_response
  \/ click_next
  \/ handleThemeChange
  \/ callTool_inOrder

InOrderSpec == Init /\ [][InOrderNext]_vars

\* ------------------------------------------------------------ properties

HasDeck == IsDefined(getCurrentDeck)

Current == Get(getCurrentDeck)

SlideTypes(slides) == [i \in 1..Len(slides) |-> slides[i].type]

ArchetypeOrder ==
  <<"title", "problem", "solution", "market", "product", "business_model",
    "traction", "team", "ask">>

\* The call threw `message`: no snapshot, and the store is as it was.
FailsWith(r, message) ==
  /\ r.response.error = Some(message)
  /\ r.response.props = Undefined
  /\ r.decks = decks
  /\ r.currentDeckId = currentDeckId

\* The call returned, and touched at most the deck that was current.
Succeeds(r) ==
  /\ r.response.error = Undefined
  /\ r.currentDeckId = currentDeckId
  /\ DOMAIN r.decks = DOMAIN decks
  /\ \A k \in DOMAIN decks : k # Current.id => r.decks[k] = decks[k]

\* C1: whatever the store holds, generate_pitch_deck with any input (each
\* optional field absent, empty or given) and any tokens drawn returns, puts
\* under the drawn deck id a deck of exactly nine slides of the types title,
\* problem, solution, market, product, business_model, traction, team, ask in
\* this order with the theme midnight (the first of VALID_THEMES), keeps every
\* other deck, and leaves the current-deck pointer at the new deck.
C1_GenerateMakesNineSlideCurrentDeck ==
  \A args \in GenerateInputs, deckId \in Tokens, ids \in SlideDraws :
    LET r == GeneratePitchDeck(args, deckId, ids) IN
      /\ r.response.error = Undefined
      /\ DOMAIN r.decks = DOMAIN decks \cup {deckId}
      /\ \A k \in DOMAIN decks : k # deckId => r.decks[k] = decks[k]
      /\ Len(r.decks[deckId].slides) = 9
      /\ SlideTypes(r.decks[deckId].slides) = ArchetypeOrder
      /\ r.decks[deckId].theme = "midnight"
      /\ r.decks[deckId].theme = VALID_THEMES[1]
      /\ r.currentDeckId = Some(deckId)
      /\ r.decks[Get(r.currentDeckId)].id = deckId

\* A second generate_pitch_deck has returned: the current deck is a fresh
\* nine-slide midnight deck, beside an older deck whose theme was changed.
C1_Witness ==
  /\ response.tool = "generate_pitch_deck"
  /\ Cardinality(DOMAIN decks) = 2
  /\ HasDeck
  /\ SlideTypes(Current.slides) = ArchetypeOrder
  /\ Current.theme = "midnight"
  /\ \E k \in DOMAIN decks : decks[k].theme = "forest"

\* C2: as long as generate_pitch_deck has never returned, the store holds no
\* deck and no current-deck pointer, and every update_slide, add_slide,
\* remove_slide and change_theme call that reaches its handler throws the
\* "no deck" error and changes nothing (a change_theme request with a theme
\* outside VALID_THEMES is turned away by the schema, and changes nothing
\* either).
C2_NoDeckEveryMutationFails ==
  calls.generates = 0 =>
    /\ DOMAIN decks = {}
    /\ currentDeckId = Undefined
    /\ \A i \in IndexInputs(0), title \in TitleInputs,
          content \in ContentInputs, bullets \in BulletsInputs :
         FailsWith(UpdateSlide(i, title, content, bullets), NoDeckMessage)
    /\ \A a \in AddInputs, position \in PositionInputs(0),
          bullets \in BulletsInputs :
         FailsWith(AddSlide(a.title, a.content, a.slide_type, position,
                            bullets, a.id), NoDeckMessage)
    /\ \A i \in IndexInputs(0) : FailsWith(RemoveSlide(i), NoDeckMessage)
    /\ \A theme \in ThemeSet : FailsWith(ChangeTheme(theme), NoDeckMessage)
    /\ \A theme \in ThemeInputs \ ThemeSet :
         LET r == ChangeTheme(theme) IN
           /\ IsDefined(r.response.error)
           /\ r.decks = decks
           /\ r.currentDeckId = currentDeckId

\* No deck was ever generated and an add_slide call has just been refused.
C2_Witness ==
  /\ calls.generates = 0
  /\ response.tool = "add_slide"
  /\ response.error = Some(NoDeckMessage)
  /\ DOMAIN decks = {}

\* C3 as claimed: update_slide with a valid index sets every field it is
\* given (title, content, bullets) to the value given, the empty string and
\* the empty bullet list included.
C3_UpdateSetsEveryGivenField ==
  HasDeck =>
    \A i \in 0..(NumSlides - 1), title \in TitleInputs,
       content \in ContentInputs, bullets \in BulletsInputs :
      LET r == UpdateSlide(i, title, content, bullets)
          slide == r.decks[Current.id].slides[i + 1]
      IN /\ r.response.error = Undefined
         /\ IsDefined(title) => slide.title = Get(title)
         /\ IsDefined(content) => slide.content = content
         /\ IsDefined(bullets) => slide.bullets = bullets

\* C3 as amended: update_slide with a valid index sets the title and the
\* content it is given to the value given when that value is not the empty
\* string, and the bullets to any list given, the empty list included; a
\* title or content given as the empty string is ignored, and that field of
\* the slide stays as it was.
C3_UpdateSetsNonEmptyGivenField ==
  HasDeck =>
    \A i \in 0..(NumSlides - 1), title \in TitleInputs,
       content \in ContentInputs, bullets \in BulletsInputs :
      LET r == UpdateSlide(i, title, content, bullets)
          old == Current.slides[i + 1]
          slide == r.decks[Current.id].slides[i + 1]
      IN /\ r.response.error = Undefined
         /\ (IsDefined(title) /\ Get(title) # "") => slide.title = Get(title)
         /\ (IsDefined(content) /\ Get(content) # "") => slide.content = content
         /\ IsDefined(bullets) => slide.bullets = bullets
         /\ title = Some("") => slide.title = old.title
         /\ content = Some("") => slide.content = old.content

\* An update_slide call given an empty title, a content and bullets has
\* returned: the slide holds the content and the bullets, and a title that is
\* not empty.
C3_Witness ==
  /\ response.tool = "update_slide"
  /\ response.error = Undefined
  /\ HasDeck
  /\ \E i \in 1..NumSlides :
       /\ Current.slides[i].content = Some("New content")
       /\ Current.slides[i].bullets = Some(<<"b1", "b2">>)
       /\ Current.slides[i].title # ""

\* C4: update_slide with a valid index leaves as they were every field of the
\* addressed slide it was not given (title, content, bullets), the slide's id,
\* type, subtitle, metrics and icon, every other slide, the number and order
\* of the slides, the deck's id, theme, company name and tagline, every other
\* deck and the current-deck pointer.
C4_UpdateLeavesTheRestUntouched ==
  HasDeck =>
    \A i \in 0..(NumSlides - 1), title \in TitleInputs \ {Some("")},
       content \in ContentInputs \ {Some("")}, bullets \in BulletsInputs :
      LET r == UpdateSlide(i, title, content, bullets)
          deck == r.decks[Current.id]
          old == Current.slides[i + 1]
          slide == deck.slides[i + 1]
      IN /\ Succeeds(r)
         /\ title = Undefined => slide.title = old.title
         /\ content = Undefined => slide.content = old.content
         /\ bullets = Undefined => slide.bullets = old.bullets
         /\ slide.id = old.id /\ slide.type = old.type
         /\ slide.subtitle = old.subtitle /\ slide.metrics = old.metrics
         /\ slide.icon = old.icon
         /\ Len(deck.slides) = NumSlides
         /\ \A j \in 1..NumSlides : j # i + 1 => deck.slides[j] = Current.slides[j]
         /\ deck.id = Current.id /\ deck.theme = Current.theme
         /\ deck.companyName = Current.companyName
         /\ deck.tagline = Current.tagline

\* An update_slide call given only a title has returned: the problem slide
\* has the new title and still its template content and bullets.
C4_Witness ==
  /\ response.tool = "update_slide"
  /\ response.error = Undefined
  /\ HasDeck
  /\ \E i \in 1..NumSlides :
       /\ Current.slides[i].type = "solution"
       /\ Current.slides[i].title = "New title"
       /\ Current.slides[i].content # Some("New content")
       /\ IsDefined(Current.slides[i].content)
       /\ Len(Get(Current.slides[i].bullets)) = 3

\* C5: with a current deck of n slides, update_slide and remove_slide with an
\* index below 0, equal to n or above n throw the invalid-index error
\* (update_slide's message carries the range, remove_slide's does not), and
\* the store, the deck and the pointer are as before the call.
C5_IndexOutOfRangeRejected ==
  HasDeck =>
    \A i \in IndexInputs(NumSlides) \ (0..(NumSlides - 1)) :
      /\ FailsWith(RemoveSlide(i), RemoveIndexMessage)
      /\ \A title \in TitleInputs, content \in ContentInputs,
            bullets \in BulletsInputs :
           FailsWith(UpdateSlide(i, title, content, bullets),
                     UpdateIndexMessage(NumSlides))

\* update_slide has just been refused an index on a deck that has slides.
C5_Witness ==
  /\ HasDeck
  /\ NumSlides >= 1
  /\ response.tool = "update_slide"
  /\ response.error = Some(UpdateIndexMessage(NumSlides))
  /\ response.props = Undefined

\* The slide add_slide is claimed to build from its arguments.
AddedSlide(slide, id, title, content, slide_type, bullets) ==
  /\ slide.id = id
  /\ slide.type = slide_type
  /\ slide.title = title
  /\ slide.content = Some(content)
  /\ slide.bullets = bullets
  /\ slide.subtitle = Undefined /\ slide.metrics = Undefined
  /\ slide.icon = Undefined

\* C6: add_slide with a position p, 0 <= p <= n, on a current deck of n slides
\* returns and leaves that deck with n + 1 slides: the new slide, with the
\* title, content, type and bullets given, at index p, the slides formerly
\* below p at the same indices, and each slide formerly at an index i >= p at
\* i + 1.
C6_AddInsertsAtPosition ==
  HasDeck =>
    \A p \in 0..NumSlides, a \in AddInputs, bullets \in BulletsInputs :
      LET r == AddSlide(a.title, a.content, a.slide_type, Some(p), bullets, a.id)
          slides == r.decks[Current.id].slides
      IN /\ Succeeds(r)
         /\ Len(slides) = NumSlides + 1
         /\ AddedSlide(slides[p + 1], a.id, a.title, a.content, a.slide_type,
                       bullets)
         /\ \A i \in 0..(p - 1) : slides[i + 1] = Current.slides[i + 1]
         /\ \A i \in p..(NumSlides - 1) : slides[i + 2] = Current.slides[i + 1]

\* add_slide with position 1 has returned: the new slide is the second one,
\* between the title slide and the slide that used to follow it.
C6_Witness ==
  /\ response.tool = "add_slide"
  /\ response.error = Undefined
  /\ HasDeck
  /\ NumSlides = 10
  /\ Current.slides[1].type = "title"
  /\ Current.slides[2].title = "Appendix"
  /\ Current.slides[2].type = "custom"
  /\ Current.slides[3].type = "problem"

\* C7: with a current deck of n slides, add_slide with the position omitted,
\* equal to n, negative or greater than n returns, and the new slide is the
\* last of n + 1 slides with the n earlier ones at their indices; the call
\* with position n and the call with the position omitted leave the same
\* store and return the same snapshot when they draw the same slide id.
C7_AddAppendsOutsideRange ==
  HasDeck =>
    \A a \in AddInputs, bullets \in BulletsInputs :
      /\ \A position \in PositionInputs(NumSlides) :
           (position = Undefined \/ Get(position) < 0
              \/ Get(position) >= NumSlides) =>
             LET r == AddSlide(a.title, a.content, a.slide_type, position,
                               bullets, a.id)
                 slides == r.decks[Current.id].slides
             IN /\ Succeeds(r)
                /\ Len(slides) = NumSlides + 1
                /\ AddedSlide(slides[NumSlides + 1], a.id, a.title, a.content,
                              a.slide_type, bullets)
                /\ \A i \in 1..NumSlides : slides[i] = Current.slides[i]
      /\ AddSlide(a.title, a.content, a.slide_type, Some(NumSlides), bullets, a.id)
           = AddSlide(a.title, a.content, a.slide_type, Undefined, bullets, a.id)

\* add_slide with a position above the range (10 on nine slides) and bullets
\* has returned: the new slide is the tenth and last.
C7_Witness ==
  /\ response.tool = "add_slide"
  /\ response.error = Undefined
  /\ HasDeck
  /\ NumSlides = 10
  /\ Current.slides[10].title = "Appendix"
  /\ Current.slides[10].bullets = Some(<<"b1", "b2">>)
  /\ Current.slides[9].type = "ask"

\* C8: remove_slide(i) with 0 <= i < n on a current deck of n slides returns
\* and leaves that deck with n - 1 slides: the slides formerly below i at the
\* same indices and each slide formerly at an index j > i at j - 1; the deck's
\* theme, company name and tagline, and every other deck, are as before.
C8_RemoveTakesOutOneSlide ==
  HasDeck =>
    \A i \in 0..(NumSlides - 1) :
      LET r == RemoveSlide(i)
          deck == r.decks[Current.id]
      IN /\ Succeeds(r)
         /\ Len(deck.slides) = NumSlides - 1
         /\ \A j \in 0..(i - 1) : deck.slides[j + 1] = Current.slides[j + 1]
         /\ \A j \in (i + 1)..(NumSlides - 1) :
              deck.slides[j] = Current.slides[j + 1]
         /\ deck.theme = Current.theme
         /\ deck.companyName = Current.companyName
         /\ deck.tagline = Current.tagline
         /\ deck.id = Current.id

\* remove_slide(1) has returned on a generated deck: eight slides are left,
\* the title slide still first and the solution slide now second.
C8_Witness ==
  /\ response.tool = "remove_slide"
  /\ response.error = Undefined
  /\ HasDeck
  /\ NumSlides = 8
  /\ Current.slides[1].type = "title"
  /\ Current.slides[2].type = "solution"
  /\ Current.slides[8].type = "ask"

\* What C9 says of a current deck without slides: every remove_slide and
\* update_slide throws the invalid-index error, and add_slide returns and
\* leaves one slide.
EmptyDeckRefusesIndices ==
  /\ \A i \in IndexInputs(0) :
       /\ FailsWith(RemoveSlide(i), RemoveIndexMessage)
       /\ \A title \in TitleInputs, content \in ContentInputs,
             bullets \in BulletsInputs :
            FailsWith(UpdateSlide(i, title, content, bullets),
                      UpdateIndexMessage(0))
  /\ \A position \in PositionInputs(0), bullets \in BulletsInputs :
       LET r == AddSlide("Appendix", "extra info", "custom", position,
                         bullets, NumTemplateSlides + 1)
       IN Succeeds(r) /\ Len(r.decks[Current.id].slides) = 1

\* C9: no minimum slide count is enforced. On a current deck of one slide
\* remove_slide(0) returns; the step that removes the last slide of the
\* current deck leaves a deck of no slides on which remove_slide(0) throws the
\* invalid-index error; and on every current deck without slides each
\* remove_slide and update_slide throws that error while add_slide returns.
C9_NoMinimumSlideCount ==
  /\ [](HasDeck /\ NumSlides = 1 =>
          LET r == RemoveSlide(0)
          IN Succeeds(r) /\ r.decks[Current.id].slides = << >>)
  /\ [](HasDeck /\ NumSlides = 0 => EmptyDeckRefusesIndices)
  /\ [][(/\ HasDeck /\ NumSlides = 1
         /\ response'.tool = "remove_slide"
         /\ response'.error = Undefined)
          => (/\ HasDeck' /\ NumSlides' = 0
              /\ FailsWith(RemoveSlide(0), RemoveIndexMessage)'
              /\ EmptyDeckRefusesIndices')]_vars

\* The current deck has lost all its slides and a further remove_slide(0) has
\* just been refused.
C9_Witness ==
  /\ HasDeck
  /\ NumSlides = 0
  /\ calls.removes = NumTemplateSlides
  /\ response.tool = "remove_slide"
  /\ response.error = Some(RemoveIndexMessage)

\* C10: the theme of every deck in the store is one of midnight, clean,
\* sunset, forest, electric, and a change_theme request with any other value
\* is refused with no snapshot, the store and every deck as before.
C10_ThemeAlwaysValid ==
  /\ \A k \in DOMAIN decks :
       decks[k].theme \in {"midnight", "clean", "sunset", "forest", "electric"}
  /\ \A theme \in ThemeInputs :
       theme \notin {"midnight", "clean", "sunset", "forest", "electric"} =>
         FailsWith(ChangeTheme(theme), InvalidThemeMessage)

\* A change_theme request for "neon" has just been refused on a deck whose
\* theme an earlier change_theme set to forest, and which still is forest.
C10_Witness ==
  /\ response.tool = "change_theme"
  /\ response.error = Some(InvalidThemeMessage)
  /\ HasDeck
  /\ Current.theme = "forest"

\* C11: with a current deck, change_theme with any of the five themes returns
\* and leaves that deck with exactly the theme given, its slides (each slide,
\* their order and their number), company name, tagline and id as before,
\* and every other deck and the pointer as before.
C11_ChangeThemeSetsOnlyTheme ==
  HasDeck =>
    \A theme \in ThemeSet :
      LET r == ChangeTheme(theme)
          deck == r.decks[Current.id]
      IN /\ Succeeds(r)
         /\ deck.theme = theme
         /\ deck.slides = Current.slides
         /\ deck.companyName = Current.companyName
         /\ deck.tagline = Current.tagline
         /\ deck.id = Current.id

\* change_theme("forest") has just returned on a deck that had lost a slide:
\* the deck is forest and still has its eight slides.
C11_Witness ==
  /\ response.tool = "change_theme"
  /\ response.error = Undefined
  /\ HasDeck
  /\ Current.theme = "forest"
  /\ NumSlides = 8
  /\ Current.companyName = "Acme"

\* What C12 says of the four mutations in one state: each call, returning or
\* throwing, leaves the current-deck pointer as it was.
MutationsKeepPointer ==
  /\ \A i \in {-1, 0, NumSlides}, title \in TitleInputs,
        bullets \in {Undefined, Some(<< >>)} :
       UpdateSlide(i, title, Undefined, bullets).currentDeckId = currentDeckId
  /\ \A a \in AddInputs, position \in {Undefined, Some(0), Some(NumSlides + 1)} :
       AddSlide(a.title, a.content, a.slide_type, position, Undefined, a.id)
         .currentDeckId = currentDeckId
  /\ \A i \in {-1, 0, NumSlides} :
       RemoveSlide(i).currentDeckId = currentDeckId
  /\ \A theme \in ThemeInputs :
       ChangeTheme(theme).currentDeckId = currentDeckId

\* C12: the current-deck pointer changes only in a generate_pitch_deck step.
\* In every state generate_pitch_deck leaves the pointer at the id of the deck
\* it has just stored, and update_slide, add_slide, remove_slide and
\* change_theme, returning or throwing, leave the pointer as it was; and in
\* every step a call that is not a generate_pitch_deck leaves the pointer
\* unchanged, while a generate_pitch_deck leaves it at the deck whose snapshot
\* it returns.
C12_PointerMovesOnlyOnGenerate ==
  /\ [](/\ MutationsKeepPointer
        /\ \A args \in GenerateCalls, deckId \in Tokens :
             LET r == GeneratePitchDeck(args, deckId, DistinctDraws) IN
               /\ r.currentDeckId = Some(deckId)
               /\ deckProps(r.decks[deckId]) = Get(r.response.props))
  /\ [][/\ calls'.generates = calls.generates => currentDeckId' = currentDeckId
        /\ calls'.generates # calls.generates =>
             /\ response'.tool = "generate_pitch_deck"
             /\ IsDefined(currentDeckId')
             /\ deckProps(decks'[Get(currentDeckId')]) = Get(response'.props)]_vars

\* With two decks in the store and the second one current, a remove_slide
\* has returned and an update_slide has then been refused: the pointer is
\* still at the second deck.
C12_Witness ==
  /\ calls.generates = 2
  /\ Cardinality(DOMAIN decks) = 2
  /\ calls.removes >= 1
  /\ response.tool = "update_slide"
  /\ IsDefined(response.error)
  /\ HasDeck
  /\ NumSlides = 8
  /\ \E k \in DOMAIN decks : k # Current.id /\ Len(decks[k].slides) = 9

\* C13: the current-deck pointer is unset or the id of a deck the store holds
\* (under the key that is the deck's own id), and getCurrentDeck returns the
\* absence value exactly when no generate_pitch_deck has ever returned;
\* otherwise it returns the stored deck the pointer names.
C13_PointerNamesStoredDeck ==
  /\ currentDeckId = Undefined \/ Get(currentDeckId) \in DOMAIN decks
  /\ \A k \in DOMAIN decks : decks[k].id = k
  /\ (getCurrentDeck = Undefined) <=> (calls.generates = 0)
  /\ calls.generates > 0 =>
       /\ IsDefined(currentDeckId)
       /\ getCurrentDeck = Some(decks[Get(currentDeckId)])

\* A second deck has been generated after the first had lost a slide: the
\* pointer names the second deck, which the store holds beside the first.
C13_Witness ==
  /\ calls.generates = 2
  /\ calls.removes = 1
  /\ response.tool = "generate_pitch_deck"
  /\ IsDefined(currentDeckId)
  /\ Get(currentDeckId) \in DOMAIN decks
  /\ \E k \in DOMAIN decks : k # Get(currentDeckId) /\ Len(decks[k].slides) = 8

\* C14: decks accumulate. In every step each deck id in the store stays in
\* the store, and a step in which generate_pitch_deck returns keeps every
\* deck the store held as it was (none is replaced) and leaves the store
\* holding one deck more.
C14_DecksAccumulate ==
  [][/\ DOMAIN decks \subseteq DOMAIN decks'
     /\ calls'.generates # calls.generates =>
          /\ \A k \in DOMAIN decks : decks'[k] = decks[k]
          /\ Cardinality(DOMAIN decks') = Cardinality(DOMAIN decks) + 1]_vars

\* C15: in every deck of the store the ids of the slides are pairwise
\* distinct, and update_slide with a valid index leaves the id of every slide
\* of the current deck as it was.
C15_SlideIdsDistinctAndKept ==
  /\ \A k \in DOMAIN decks :
       \A i, j \in 1..Len(decks[k].slides) :
         i # j => decks[k].slides[i].id # decks[k].slides[j].id
  /\ HasDeck =>
       \A i \in 0..(NumSlides - 1), title \in {Undefined, Some("New title")},
          bullets \in {Undefined, Some(<<"b1", "b2">>)} :
         LET r == UpdateSlide(i, title, Some("New content"), bullets) IN
           \A j \in 1..NumSlides :
             r.decks[Current.id].slides[j].id = Current.slides[j].id

\* C16: once a call has been answered, the answer to the latest call carries,
\* if the call returned, a snapshot whose companyName, tagline, theme and
\* slides are those of the current deck as the store holds it right after the
\* call, and no snapshot if the call threw.
C16_SnapshotIsCurrentDeck ==
  response.tool # "none" =>
    IF IsDefined(response.error)
      THEN response.props = Undefined
      ELSE /\ HasDeck
           /\ IsDefined(response.props)
           /\ Get(response.props).companyName = Current.companyName
           /\ Get(response.props).tagline = Current.tagline
           /\ Get(response.props).theme = Current.theme
           /\ Get(response.props).slides = Current.slides
           /\ DOMAIN Get(response.props)
                = {"companyName", "tagline", "theme", "slides"}

\* A remove_slide has returned on a deck turned forest: the snapshot shows
\* the forest theme and the eight slides left.
C16_Witness ==
  /\ response.tool = "remove_slide"
  /\ response.error = Undefined
  /\ IsDefined(response.props)
  /\ Get(response.props).theme = "forest"
  /\ Len(Get(response.props).slides) = 8

\* C17: while the widget presents a snapshot, of any number of slides (none
\* included), and whatever keys, arrow buttons and dots were used,
\* currentSlide is an integer from 0 to slides.length - 1.
C17_IndexWithinDeck ==
  IsDefined(props) => currentSlide \in 0..(total - 1)

\* C18: while the widget presents a snapshot, from its first render on and
\* also after snapshots whose theme is no theme name, activeTheme is one of
\* midnight, clean, sunset, forest, electric.
C18_ActiveThemeInSet ==
  IsDefined(props) =>
    activeTheme \in {"midnight", "clean", "sunset", "forest", "electric"}

NextInputs == {"ArrowRight", "ArrowDown", "next"}

PrevInputs == {"ArrowLeft", "ArrowUp", "prev"}

\* What C19 says of the inputs in one state, n slides presented, index c.
StepsAndClamps(n, c) ==
  /\ \A key \in {"ArrowRight", "ArrowDown"} :
       KeyDown(key, c) = IF c = n - 1 THEN n - 1 ELSE c + 1
  /\ NextArrowClick(c) = IF c = n - 1 THEN n - 1 ELSE c + 1
  /\ \A key \in {"ArrowLeft", "ArrowUp"} :
       KeyDown(key, c) = IF c = 0 THEN 0 ELSE c - 1
  /\ PrevArrowClick(c) = IF c = 0 THEN 0 ELSE c - 1
  /\ \A i \in 0..(n - 1) : goToSlide(i, c) = i

\* C19: while a snapshot of n >= 1 slides is presented, a next input
\* (ArrowRight, ArrowDown, the next button) at index n - 1 leaves the index
\* at n - 1 and at any other index adds 1; a previous input (ArrowLeft,
\* ArrowUp, the previous button) at index 0 leaves it at 0 and at any other
\* index subtracts 1; a click on dot i sets the index to i. This is so of
\* the handlers in every state, and of every step that handles such an input.
C19_NavigationStepsAndClamps ==
  /\ [](IsDefined(props) /\ total >= 1 => StepsAndClamps(total, currentSlide))
  /\ [][(IsDefined(props) /\ total >= 1 /\ event' # event) =>
          /\ event'.input \in NextInputs =>
               currentSlide' = IF currentSlide = total - 1 THEN total - 1
                               ELSE currentSlide + 1
          /\ event'.input \in PrevInputs =>
               currentSlide' = IF currentSlide = 0 THEN 0 ELSE currentSlide - 1
          /\ event'.input = "dot" => currentSlide' \in 0..(total - 1)]_vars

\* ArrowRight was pressed on the last of three slides: the index is still
\* that of the last slide.
C19_Witness ==
  /\ IsDefined(props)
  /\ total = 3
  /\ event = [input |-> "ArrowRight", prev |-> 2]
  /\ currentSlide = 2

\* C20: when the latest input the widget handled is the arrival of props (a
\* new slides array), on the first render or later, currentSlide is 0,
\* whatever index the props found; and in every state any props that
\* arrive next leave the index at 0.
C20_NewPropsResetIndex ==
  /\ event.input \in {"render", "props"} => currentSlide = 0
  /\ IsDefined(props) =>
       \A p \in Snapshots :
         Reconcile(p.theme, currentSlide, activeTheme).currentSlide = 0

\* Props of three slides arrived while the widget showed the third slide of
\* the snapshot before: it now shows the first.
C20_Witness ==
  /\ IsDefined(props)
  /\ total = 3
  /\ event = [input |-> "props", prev |-> 2]
  /\ currentSlide = 0

\* C21: while the widget presents a snapshot, props that arrive next leave
\* activeTheme at their theme if that is one of midnight, clean, sunset,
\* forest, electric, and as it was before if it is any other string.
C21_PropsThemeAdoptedOrKept ==
  IsDefined(props) =>
    \A p \in Snapshots :
      Reconcile(p.theme, currentSlide, activeTheme).activeTheme
        = IF p.theme \in {"midnight", "clean", "sunset", "forest", "electric"}
            THEN p.theme
            ELSE activeTheme

\* C22: a swatch click sets activeTheme to the theme clicked in the step
\* that issues the change_theme call, and leaves the slide index alone; the
\* step in which a call in flight is executed by the server, or fails, leaves
\* activeTheme, currentSlide and the props as they were.
C22_ClickSetsThemeCallOutcomeIgnored ==
  /\ [](\A name \in THEMES : HandleThemeChange(name).activeTheme = name)
  /\ [][/\ Len(inFlight') > Len(inFlight) =>
             /\ activeTheme' = inFlight'[Len(inFlight')]
             /\ clicked' = Some(activeTheme')
             /\ currentSlide' = currentSlide
        /\ Len(inFlight') < Len(inFlight) =>
             /\ activeTheme' = activeTheme
             /\ currentSlide' = currentSlide
             /\ props' = props]_vars

\* The forest swatch was clicked on the third slide and the call has failed:
\* no call is in flight, the server's deck is still midnight, and the widget
\* still shows forest, on the third slide.
C22_Witness ==
  /\ IsDefined(props)
  /\ clicked = Some("forest")
  /\ inFlight = << >>
  /\ calls.edits = 0
  /\ HasDeck
  /\ Current.theme = "midnight"
  /\ activeTheme = "forest"
  /\ currentSlide = 2

\* C23 as claimed: whatever the order in which the change_theme calls are
\* executed, fail and complete, and whatever snapshots the widget is shown in
\* between and after, the theme the widget displays is the theme of the
\* swatch clicked last.
C23_DisplayIsLastClick ==
  IsDefined(clicked) => DisplayedTheme = Get(clicked)

\* C23 as amended: the theme the widget displays is the theme of the swatch
\* clicked last as long as no snapshot was shown to it after that click,
\* whatever the order in which the calls are executed, fail and complete; a
\* snapshot shown after the click puts the snapshot's theme in its place.
\* In steps: a click displays the theme clicked, a snapshot displays the
\* snapshot's theme, and no other step changes the theme displayed.
C23_DisplayIsLastClickOrSnapshot ==
  /\ [](event.input = "theme" => DisplayedTheme = Get(clicked))
  /\ [](event.input \in {"render", "props"} =>
          DisplayedTheme = Get(props).theme)
  /\ [][/\ clicked' # clicked => DisplayedTheme' = Get(clicked')
        /\ props' # props => DisplayedTheme' = Get(props').theme
        /\ (activeTheme' # activeTheme) =>
             (Len(inFlight') > Len(inFlight) \/ props' # props)]_vars

\* The forest swatch was clicked, its call is still in flight, and the widget
\* was then shown the snapshot of a deck the chat generated: it displays
\* midnight, the snapshot's theme.
C23_Witness ==
  /\ clicked = Some("forest")
  /\ inFlight = <<"forest">>
  /\ event.input = "props"
  /\ Get(props).theme = "midnight"
  /\ activeTheme = "midnight"
  /\ calls.generates = 2

\* C24: while the widget presents a snapshot, on one of its slides, a swatch
\* click leaves the slide index as it was; a step that changes the index is
\* local navigation (a key, an arrow button, a dot) or the arrival of props;
\* and props that bring another theme with the same slides leave the index
\* as it was.
C24_IndexResetOnlyByNewSlides ==
  [][(IsDefined(props) /\ currentSlide \in 0..(total - 1)) =>
       /\ clicked' # clicked => currentSlide' = currentSlide
       /\ currentSlide' # currentSlide =>
            \/ event'.input \in NextInputs \cup PrevInputs \cup {"dot"}
            \/ event'.input = "props"
       /\ (props' # props /\ Get(props').slides = Get(props).slides) =>
            currentSlide' = currentSlide]_vars

\* The store a call leaves differs from the present one at most in the deck
\* the pointer names.
OnlyCurrentTouched(r) ==
  /\ DOMAIN r.decks = DOMAIN decks
  /\ \A k \in DOMAIN decks : k # Get(currentDeckId) => r.decks[k] = decks[k]

\* C25: with a current deck, each update_slide, add_slide, remove_slide and
\* change_theme, returning or throwing, leaves every deck but the current one
\* as it was; and the step in which the server executes a change_theme call
\* of the widget changes no deck but the one current at that step, whichever
\* deck the widget shows.
C25_MutationsTouchOnlyCurrentDeck ==
  /\ [](IsDefined(currentDeckId) =>
          /\ \A i \in {-1, 0}, bullets \in {Undefined, Some(<<"b1", "b2">>)} :
               OnlyCurrentTouched(UpdateSlide(i, Some("New title"), Undefined,
                                              bullets))
          /\ \A a \in AddInputs, position \in {Undefined, Some(0)} :
               OnlyCurrentTouched(AddSlide(a.title, a.content, a.slide_type,
                                           position, Undefined, a.id))
          /\ \A i \in {-1, 0} : OnlyCurrentTouched(RemoveSlide(i))
          /\ \A theme \in ThemeInputs : OnlyCurrentTouched(ChangeTheme(theme)))
  /\ [][Len(inFlight') < Len(inFlight) =>
          /\ currentDeckId' = currentDeckId
          /\ DOMAIN decks' = DOMAIN decks
          /\ \A k \in DOMAIN decks :
               k # Get(currentDeckId) => decks'[k] = decks[k]]_vars

\* The widget shows the deck generated first; a second deck was generated
\* since and is current; the widget's forest swatch was clicked and the
\* server has executed the call: the second deck is forest, the first one is
\* midnight as before.
C25_Witness ==
  /\ Cardinality(DOMAIN decks) = 2
  /\ IsDefined(props)
  /\ clicked = Some("forest")
  /\ inFlight = << >>
  /\ response.tool = "change_theme"
  /\ response.error = Undefined
  /\ decks[Get(currentDeckId)].theme = "forest"
  /\ Get(props).slides # decks[Get(currentDeckId)].slides
  /\ \E k \in DOMAIN decks :
       /\ k # Get(currentDeckId)
       /\ decks[k].theme = "midnight"
       /\ decks[k].slides = Get(props).slides

\* C26: with one widget and one deck, the widget's change_theme calls all
\* succeeding and executed in the order of the clicks, and no other change
\* of the theme, whenever no call is in flight the theme of the current deck
\* on the server is the widget's activeTheme.
C26_QuiescentThemesAgree ==
  (HasDeck /\ IsDefined(props) /\ inFlight = << >>) =>
    Current.theme = activeTheme

\* Two swatches were clicked, the last one forest, both calls were executed
\* and none is in flight: server and widget are on forest.
C26_Witness ==
  /\ HasDeck
  /\ IsDefined(props)
  /\ inFlight = << >>
  /\ calls.edits = 2
  /\ clicked = Some("forest")
  /\ activeTheme = "forest"
  /\ Current.theme = "forest"
  /\ Get(props).theme = "midnight"

====
